---- MODULE Spec2Model ----
(***************************************************************************)
(* Confluence MCP server: startup (main / buildConfig), the HTTP transport  *)
(* (fetchWithRetry / request), the content client operations and the tool  *)
(* handlers of src/src/tools.ts as a state machine, with the upstream      *)
(* service as the environment.                                             *)
(*                                                                         *)
(* An optional value (T | undefined) is a sequence of length <= 1:         *)
(* <<>> is undefined, <<v>> is the value v.                                *)
(***************************************************************************)
EXTENDS Integers, Sequences, FiniteSets, TLC

\* ---- bounds of the model --------------------------------------------------
\* concurrently in-flight tool invocations (ConcSpec)
NumInv == 2
\* the upstream page's version never exceeds MaxVersion
MaxVersion == 3
\* transport failures (5xx, network fault, timeout) the environment injects in
\* one behaviour of ConcSpec
MaxFaults == 1

\* ---- program constants ----------------------------------------------------
MAX_RETRIES == 2
BASE_DELAY_MS == 500

Inv == 1..NumInv

Tools ==
    { "confluence_get_current_user", "confluence_search_pages",
      "confluence_execute_cql_search", "confluence_get_page",
      "confluence_create_page", "confluence_update_page" }

VARIABLES
    process,      \* "starting" | "running" | "exited": the node process
    defaultSpace, \* ConfluenceClient.defaultSpace (optional string)
    pageVersion,  \* upstream: current version number of the page
    injected,     \* environment: transport failures injected so far (ConcSpec)
    tool,         \* [Inv -> tool name or "none"]: the handler running
    args,         \* [Inv -> the tool call's arguments]
    pc,           \* [Inv -> "idle" | "fetch" | "sleep" | "settled" | "done"]
    method,       \* [Inv -> method of the request in progress]
    sentVersion,  \* [Inv -> version.number in the body of the request (optional)]
    retriesLeft,  \* [Inv -> retriesLeft of the current fetchWithRetry frame]
    settled,      \* [Inv -> how fetchWithRetry ended: a response or a thrown error]
    current,      \* [Inv -> version of updatePage's `current` page (optional)]
    result,       \* [Inv -> what the tool handler returned]
    attempts,     \* history: fetch calls made for the request in progress
    delays,       \* history: sleep delays taken for the request in progress
    outcomes,     \* history: how each attempt of the request ended
    gets,         \* history: versions the upstream returned to successful GETs
    puts,         \* history: version numbers of the PUT attempts sent
    applied,      \* history: writes of the invocation the upstream applied
    body,         \* SanitizeSpec: an upstream response body (sequence of symbols)
    message,      \* SanitizeSpec: the body part of the error's message (optional)
    env,          \* process.env: the CONF_* variables (each an optional string)
    config,       \* main's `config` (optional ConfluenceConfig)
    client,       \* main's `client`: the read-only fields of ConfluenceClient
    registered,   \* whether registerTools has run
    stderr,       \* what console.error has written
    search,       \* SearchSpec: the arguments of a search call
    sent,         \* SearchSpec: the cql and limit parameters of the request
    json,         \* MapSpec: the JSON of a successful upstream response
    mapped        \* MapSpec: the record the client operation returns (optional)

\* the variables of the pure-function specifications
sanitizeVars == << body, message >>
searchVars == << search, sent >>
mapVars == << json, mapped >>

\* main's locals and the process's error stream
startupVars == << env, config, client, registered, stderr >>

\* what the transport and the tool handlers never write
pureVars == << sanitizeVars, searchVars, mapVars, startupVars >>

vars ==
    << process, defaultSpace, pageVersion, injected, tool, args, pc, method,
       sentVersion, retriesLeft, settled, current, result, attempts, delays,
       outcomes, gets, puts, applied, pureVars >>

\* the tool invocations, their requests and the upstream
requestVars ==
    << pageVersion, injected, tool, args, pc, method, sentVersion, retriesLeft,
       settled, current, result, attempts, delays, outcomes, gets, puts, applied >>

\* the process, its client, the client's requests and the upstream
clientVars ==
    << process, defaultSpace, pageVersion, injected, tool, args, pc, method,
       sentVersion, retriesLeft, settled, current, result, attempts, delays,
       outcomes, gets, puts, applied >>

\* ---- values ---------------------------------------------------------------
NoArgs == [spaceKey |-> <<>>, version |-> <<>>]

\* The arguments a caller may pass to tool t. `version` is a field the caller
\* may add to confluence_update_page; the tool's schema does not declare it.
ArgsOf(t) ==
    IF t = "confluence_create_page"
    THEN { [spaceKey |-> k, version |-> <<>>] : k \in { <<>>, <<"">>, <<"SP">> } }
    ELSE IF t = "confluence_update_page"
    THEN { [spaceKey |-> <<>>, version |-> v] :
             v \in { <<>> } \cup { <<n>> : n \in 1..MaxVersion } }
    ELSE { NoArgs }

NoResponse == [kind |-> "none", status |-> 0, version |-> <<>>]
NoResult == [kind |-> "none", isError |-> FALSE, text |-> "", http |-> 0]

\* ---- src/src/confluence.ts: error helpers ---------------------------------
friendlyStatus(status) ==
    CASE status = 400 -> "Invalid request parameters"
      [] status = 401 -> "Authentication failed"
      [] status = 403 -> "Permission denied for current user"
      [] status = 404 -> "Requested Confluence resource was not found"
      [] status = 409 -> "Version conflict - retry with latest version"
      [] OTHER -> "Confluence API error"

ConfluenceApiError(status) ==
    [name |-> "ConfluenceApiError", message |-> friendlyStatus(status),
     status |-> status]

RetriesFailedError ==
    [name |-> "Error", message |-> "Request failed after retries", status |-> 0]

MissingSpaceError ==
    [name |-> "Error",
     message |-> "spaceKey is required (or set CONF_DEFAULT_SPACE in environment).",
     status |-> 0]

JsonSyntaxError ==
    [name |-> "SyntaxError", message |-> "Unexpected token in JSON", status |-> 0]

\* the error slot of an outcome that is no failure
NoError == [name |-> "", message |-> "", status |-> 0]

\* ---- src/src/confluence.ts: fetchWithRetry --------------------------------
\* mutant: every error status is retried, not only the 5xx ones
RetryOnErrorStatus(status, left) == status >= 400 /\ left > 0

\* line 107: a response is retried iff it is a 5xx and retries remain
RetryOnResponse(status, left) == status >= 500 /\ left > 0

\* mutant: a rejected fetch is retried whatever the budget
RetryOnFaultAlways(left) == TRUE

\* mutant: the last retry is never taken
RetryOnFaultOnce(left) == left > 1

\* line 115: a rejected fetch (network fault, abort by the timer) is retried
\* iff retries remain
RetryOnFault(left) == left > 0

RECURSIVE Pow2(_)
Pow2(n) == IF n = 0 THEN 1 ELSE 2 * Pow2(n - 1)

\* mutant: a constant delay
FixedDelay(left) == BASE_DELAY_MS

\* lines 108 and 116: BASE_DELAY_MS * 2 ** (MAX_RETRIES - retriesLeft)
BackoffDelay(left) == BASE_DELAY_MS * Pow2(MAX_RETRIES - left)

\* mutant: the recursive call is given the same budget
SameRetriesLeft(left) == left

\* mutant: the budget is one counter that every in-flight invocation draws on
SharedRetryBudget(left) ==
    left - Cardinality({ j \in Inv : pc[j] \in {"fetch", "sleep", "settled"} })

\* line 110/118: the recursive call's retriesLeft
NextRetriesLeft(left) == left - 1

\* ---- src/src/confluence.ts: ConfluenceClient ------------------------------
\* Response.ok
Ok(status) == status >= 200 /\ status <= 299

\* mutant: a final 5xx is reported like an exhausted network fault
ServerErrorAsGeneric(s) ==
    IF s.kind = "thrown" \/ s.status >= 500
    THEN [ok |-> FALSE, error |-> RetriesFailedError]
    ELSE IF ~Ok(s.status)
    THEN [ok |-> FALSE, error |-> ConfluenceApiError(s.status)]
    ELSE [ok |-> TRUE, error |-> NoError]

\* request(), lines 373-378: what the await of fetchWithRetry gives the caller
RequestOutcome(s) ==
    IF s.kind = "thrown" THEN [ok |-> FALSE, error |-> RetriesFailedError]
    ELSE IF ~Ok(s.status)
    THEN [ok |-> FALSE, error |-> ConfluenceApiError(s.status)]
    ELSE [ok |-> TRUE, error |-> NoError]

\* createPage, lines 256-257: params.spaceKey ?? this.defaultSpace
EffectiveSpace(spaceKey, dflt) == IF spaceKey # <<>> THEN spaceKey ELSE dflt

\* !spaceKey: undefined and the empty string are falsy
SpaceMissing(space) == space = <<>> \/ space = <<"">>

\* toPageRecord, lines 335-337: version is kept iff the upstream gave a number
ToPageVersion(jsonVersion) == jsonVersion

\* mutant: a version supplied by the caller wins
CallerVersionWins(cur, a) ==
    IF a.version # <<>> THEN a.version[1]
    ELSE (IF cur = <<>> THEN 0 ELSE cur[1]) + 1

\* updatePage, line 296: (current.version ?? 0) + 1
NextVersion(cur, a) == (IF cur = <<>> THEN 0 ELSE cur[1]) + 1

FirstMethod(t) == IF t = "confluence_create_page" THEN "POST" ELSE "GET"

\* ---- src/src/confluence.ts: config builder, lines 384-540 ------------------
\* `!value`: undefined and the empty string are falsy
Falsy(value) == value = <<>> \/ value = <<"">>

\* a ?? b
Coalesce(a, b) == IF a # <<>> THEN a ELSE b

\* String.prototype.trim on the strings of the model
trim(s) ==
    CASE s = " " -> ""
      [] s = " alice " -> "alice"
      [] OTHER -> s

\* String.prototype.toLowerCase on the strings of the model
toLowerCase(s) ==
    CASE s = "Cloud" -> "cloud"
      [] s = "Data-Center" -> "data-center"
      [] s = "Bearer" -> "bearer"
      [] s = "Basic" -> "basic"
      [] OTHER -> s

\* lines 525-530: undefined when the variable is unset or (trimmed) empty
optionalEnv(raw, trimmed) ==
    IF raw = <<>> THEN <<>>
    ELSE LET normalized == IF trimmed THEN trim(raw[1]) ELSE raw[1]
         IN  IF normalized = "" THEN <<>> ELSE <<normalized>>

\* The result of a function that may call fatalConfig (lines 537-540): fatal
\* holds the message written before process.exit(1), value what is returned
\* otherwise.
fatalConfig(text) == [fatal |-> <<text>>, value |-> <<>>]
Returns(value) == [fatal |-> <<>>, value |-> <<value>>]

\* lines 517-523
requireEnv(raw, name) ==
    LET val == optionalEnv(raw, TRUE)
    IN  IF Falsy(val)
        THEN fatalConfig(<<"Required environment variable", name, "is not set.">>)
        ELSE Returns(val[1])

\* lines 532-535
requireValue(value, text) ==
    IF Falsy(value) THEN fatalConfig(text) ELSE Returns(value[1])

ServerModeNames == { "server", "dc", "datacenter", "data-center" }

\* mutant: an unknown mode is taken as server
UnknownModeIsServer(value) ==
    IF toLowerCase(value) = "cloud" THEN Returns("cloud") ELSE Returns("server")

\* lines 414-428
parseMode(value) ==
    LET normalized == toLowerCase(value)
    IN  IF normalized = "cloud" THEN Returns("cloud")
        ELSE IF normalized \in ServerModeNames THEN Returns("server")
        ELSE fatalConfig(<<"CONF_MODE must be one of: cloud, server (or CONF_DEPLOYMENT_MODE).">>)

\* lines 430-436
parseAuthMode(value) ==
    LET normalized == toLowerCase(value)
    IN  IF normalized \in { "auto", "basic", "bearer" } THEN Returns(normalized)
        ELSE fatalConfig(<<"CONF_AUTH_MODE must be one of: auto, basic, bearer.">>)

\* Buffer.from(text).toString("base64"): an injective encoding of the text
base64(text) == <<"base64">> \o text

\* `Basic ${base64(`${user}:${credential}`)}` and `Bearer ${token}`
BasicHeader(user, credential) ==
    [scheme |-> "Basic", credentials |-> base64(<<user, ":", credential>>)]
BearerHeader(token) == [scheme |-> "Bearer", credentials |-> <<token>>]

\* mutant: the password is preferred over the token
PasswordPreferred(token, password) == Coalesce(password, token)

\* line 450: input.token ?? input.password
CloudSecret(token, password) == Coalesce(token, password)

\* line 479: input.password ?? input.token
BasicSecret(token, password) == Coalesce(password, token)

Auth(username, authHeader, resolvedAuthMode) ==
    Returns([username |-> username, authHeader |-> authHeader,
             resolvedAuthMode |-> resolvedAuthMode])

\* lines 438-515
resolveAuthHeader(input) ==
    IF input.mode = "cloud"
    THEN LET user == requireValue(input.username,
                                  <<"CONF_USERNAME is required in cloud mode.">>)
             credential == requireValue(CloudSecret(input.token, input.password),
                              <<"Cloud mode requires CONF_TOKEN (preferred) or CONF_PASSWORD.">>)
         IN  IF user.fatal # <<>> THEN user
             ELSE IF credential.fatal # <<>> THEN credential
             ELSE Auth(user.value, BasicHeader(user.value[1], credential.value[1]), "basic")
    ELSE IF input.authMode = "bearer"
    THEN LET token == requireValue(input.token,
                                   <<"CONF_AUTH_MODE=bearer requires CONF_TOKEN.">>)
         IN  IF token.fatal # <<>> THEN token
             ELSE Auth(input.username, BearerHeader(token.value[1]), "bearer")
    ELSE IF input.authMode = "basic"
    THEN LET user == requireValue(input.username,
                                  <<"CONF_AUTH_MODE=basic requires CONF_USERNAME.">>)
             credential == requireValue(BasicSecret(input.token, input.password),
                              <<"CONF_AUTH_MODE=basic requires CONF_PASSWORD (or CONF_TOKEN as password).">>)
         IN  IF user.fatal # <<>> THEN user
             ELSE IF credential.fatal # <<>> THEN credential
             ELSE Auth(user.value, BasicHeader(user.value[1], credential.value[1]), "basic")
    ELSE IF ~Falsy(input.token)
    THEN Auth(input.username, BearerHeader(input.token[1]), "bearer")
    ELSE IF ~Falsy(input.password)
    THEN LET user == requireValue(input.username,
                        <<"Server auto mode with CONF_PASSWORD requires CONF_USERNAME.">>)
         IN  IF user.fatal # <<>> THEN user
             ELSE Auth(user.value, BasicHeader(user.value[1], input.password[1]), "basic")
    ELSE fatalConfig(<<"Server mode requires CONF_TOKEN (Bearer) or CONF_USERNAME + CONF_PASSWORD.">>)

\* lines 384-412; the calls run in the order of the source, and the first
\* fatalConfig ends the process
buildConfig(e) ==
    LET baseUrl == requireEnv(e.CONF_BASE_URL, "CONF_BASE_URL")
        mode == parseMode(
                  Coalesce(optionalEnv(e.CONF_MODE, TRUE),
                           Coalesce(optionalEnv(e.CONF_DEPLOYMENT_MODE, TRUE),
                                    <<"server">>))[1])
        authMode == parseAuthMode(
                      Coalesce(optionalEnv(e.CONF_AUTH_MODE, TRUE), <<"auto">>)[1])
        auth == resolveAuthHeader(
                  [mode |-> mode.value[1], authMode |-> authMode.value[1],
                   username |-> optionalEnv(e.CONF_USERNAME, TRUE),
                   token |-> optionalEnv(e.CONF_TOKEN, FALSE),
                   password |-> optionalEnv(e.CONF_PASSWORD, FALSE)])
    IN  IF baseUrl.fatal # <<>> THEN baseUrl
        ELSE IF mode.fatal # <<>> THEN mode
        ELSE IF authMode.fatal # <<>> THEN authMode
        ELSE IF auth.fatal # <<>> THEN auth
        ELSE Returns([baseUrl |-> baseUrl.value[1],
                      mode |-> mode.value[1],
                      username |-> auth.value[1].username,
                      authHeader |-> auth.value[1].authHeader,
                      resolvedAuthMode |-> auth.value[1].resolvedAuthMode,
                      defaultSpace |-> optionalEnv(e.CONF_DEFAULT_SPACE, TRUE)])

\* lines 134-140 on the base URLs of the model: trailing slashes are dropped,
\* and in cloud mode a final /wiki too
normalizeSiteBaseUrl(baseUrl, mode) ==
    LET trimmed == IF baseUrl = "https://wiki.example/wiki/"
                   THEN "https://wiki.example/wiki" ELSE baseUrl
    IN  IF mode = "cloud" /\ trimmed = "https://wiki.example/wiki"
        THEN "https://wiki.example" ELSE trimmed

\* the constructor, lines 152-170 (defaultSpace is the variable of that name)
NewClient(cfg) ==
    [mode |-> cfg.mode,
     siteBaseUrl |-> normalizeSiteBaseUrl(cfg.baseUrl, cfg.mode),
     apiPrefix |-> IF cfg.mode = "cloud" THEN "/wiki/rest/api" ELSE "/rest/api",
     headers |-> [Authorization |-> cfg.authHeader,
                  ContentType |-> "application/json",
                  Accept |-> "application/json"]]

\* ---- src/src/tools.ts ------------------------------------------------------
jsonContent ==
    [kind |-> "returned", isError |-> FALSE, text |-> "payload", http |-> 0]

errorContent(error) ==
    [kind |-> "returned", isError |-> TRUE, text |-> error.message,
     http |-> error.status]

\* mutant: only upstream API errors are caught, the others propagate
CatchApiErrorsOnly(t, ok, error) ==
    IF ok THEN jsonContent
    ELSE IF error.name = "ConfluenceApiError" THEN errorContent(error)
    ELSE [kind |-> "threw", isError |-> TRUE, text |-> error.message,
          http |-> error.status]

\* every handler: try { ... return jsonContent(x) } catch (error) { return
\* errorContent(error) }
Handler(t, ok, error) == IF ok THEN jsonContent ELSE errorContent(error)

\* ---- the upstream service (environment) ----------------------------------
\* The upstream's optimistic-version check of a PUT carrying version number v.
VersionAccepted(v) == v = <<pageVersion + 1>>

\* What the upstream may do with the request of invocation i that is in flight:
\* eff says whether the write takes effect. A write that took effect may still
\* be answered 503 by a gateway, or lose its response.
MayTakeEffect(i, eff) ==
    CASE method[i] = "GET" -> ~eff
      [] method[i] = "POST" -> TRUE
      [] OTHER -> eff => (VersionAccepted(sentVersion[i]) /\ pageVersion < MaxVersion)

MayAnswer(i, status, ver, eff) ==
    /\ MayTakeEffect(i, eff)
    /\ ver # <<>> => (method[i] = "GET" /\ status = 200 /\ ver = <<pageVersion>>)
    /\ CASE method[i] = "GET" -> status \in {200, 404} \/ status >= 500
         [] method[i] = "POST" ->
                \/ status = 200 /\ eff
                \/ status = 400 /\ ~eff
                \/ status >= 500
         [] OTHER ->
                \/ status = 200 /\ eff
                \/ status = 409 /\ ~VersionAccepted(sentVersion[i])
                \/ status >= 500

TakeEffect(i, eff) ==
    /\ pageVersion' = IF eff /\ method[i] = "PUT" THEN pageVersion + 1 ELSE pageVersion
    /\ applied' = IF eff THEN [applied EXCEPT ![i] = @ + 1] ELSE applied

\* The failure budget of a behaviour: ConcSpec counts the injected failures.
Inject(budgeted, failure) ==
    IF budgeted /\ failure
    THEN injected < MaxFaults /\ injected' = injected + 1
    ELSE UNCHANGED injected

\* Another actor edits the page.
ExternalEdit ==
    /\ pageVersion < MaxVersion
    /\ pageVersion' = pageVersion + 1
    /\ UNCHANGED << process, defaultSpace, injected, tool, args, pc, method,
                    sentVersion, retriesLeft, settled, current, result, attempts,
                    delays, outcomes, gets, puts, applied, pureVars >>

\* ---- fetchWithRetry, lines 96-124 -----------------------------------------
\* request() builds init and calls fetchWithRetry(url, init): the first frame
\* runs to its await of fetch (line 105).
BeginRequest(i, m, ver) ==
    /\ pc' = [pc EXCEPT ![i] = "fetch"]
    /\ method' = [method EXCEPT ![i] = m]
    /\ sentVersion' = [sentVersion EXCEPT ![i] = ver]
    /\ retriesLeft' = [retriesLeft EXCEPT ![i] = MAX_RETRIES]
    /\ settled' = [settled EXCEPT ![i] = NoResponse]
    /\ attempts' = [attempts EXCEPT ![i] = 1]
    /\ delays' = [delays EXCEPT ![i] = <<>>]
    /\ outcomes' = [outcomes EXCEPT ![i] = <<>>]
    /\ puts' = IF m = "PUT" THEN [puts EXCEPT ![i] = Append(@, ver)] ELSE puts

\* lines 108-109 / 116-117: compute the delay and await sleep(delay)
Backoff(i) ==
    /\ pc' = [pc EXCEPT ![i] = "sleep"]
    /\ delays' = [delays EXCEPT ![i] = Append(@, BackoffDelay(retriesLeft[i]))]
    /\ UNCHANGED settled

\* line 112 (return res) or line 120 (throw): the frame ends
Settle(i, s) ==
    /\ pc' = [pc EXCEPT ![i] = "settled"]
    /\ settled' = [settled EXCEPT ![i] = s]
    /\ UNCHANGED delays

\* line 105 resolves: the upstream answered with `status`
FetchResolves(i, status, ver, eff, budgeted) ==
    /\ pc[i] = "fetch"
    /\ MayAnswer(i, status, ver, eff)
    /\ TakeEffect(i, eff)
    /\ Inject(budgeted, status >= 500)
    /\ outcomes' = [outcomes EXCEPT ![i] =
                      Append(@, [kind |-> "response", status |-> status])]
    /\ gets' = IF method[i] = "GET" /\ Ok(status)
               THEN [gets EXCEPT ![i] = Append(@, ver)] ELSE gets
    /\ IF RetryOnResponse(status, retriesLeft[i])
       THEN Backoff(i)
       ELSE Settle(i, [kind |-> "response", status |-> status, version |-> ver])
    /\ UNCHANGED << process, defaultSpace, tool, args, method, sentVersion,
                    retriesLeft, current, result, attempts, puts, pureVars >>

\* lines 113-120: the catch block, entered when fetch rejects
Catch(i, cause) ==
    /\ outcomes' = [outcomes EXCEPT ![i] = Append(@, [kind |-> cause, status |-> 0])]
    /\ IF RetryOnFault(retriesLeft[i])
       THEN Backoff(i)
       ELSE Settle(i, [kind |-> "thrown", status |-> 0, version |-> <<>>])
    /\ UNCHANGED << process, defaultSpace, tool, args, method, sentVersion,
                    retriesLeft, current, result, attempts, gets, puts, pureVars >>

\* line 105 rejects: a network fault before a response was received
NetworkFault(i, eff, budgeted) ==
    /\ pc[i] = "fetch"
    /\ MayTakeEffect(i, eff)
    /\ TakeEffect(i, eff)
    /\ Inject(budgeted, TRUE)
    /\ Catch(i, "fault")

\* line 102: the timer fires while fetch is pending; controller.abort() makes
\* fetch reject
TimeoutAbort(i, eff, budgeted) ==
    /\ pc[i] = "fetch"
    /\ MayTakeEffect(i, eff)
    /\ TakeEffect(i, eff)
    /\ Inject(budgeted, TRUE)
    /\ Catch(i, "timeout")

\* sleep resolves; line 110/118: return fetchWithRetry(url, init, retriesLeft - 1),
\* whose frame runs to its await of fetch
SleepDone(i) ==
    /\ pc[i] = "sleep"
    /\ pc' = [pc EXCEPT ![i] = "fetch"]
    /\ retriesLeft' = [retriesLeft EXCEPT ![i] = NextRetriesLeft(@)]
    /\ attempts' = [attempts EXCEPT ![i] = @ + 1]
    /\ puts' = IF method[i] = "PUT"
               THEN [puts EXCEPT ![i] = Append(@, sentVersion[i])] ELSE puts
    /\ UNCHANGED << process, defaultSpace, pageVersion, injected, tool, args,
                    method, sentVersion, settled, current, result, delays,
                    outcomes, gets, applied, pureVars >>

\* ---- tool handlers, src/src/tools.ts --------------------------------------
\* No request is in progress: the transport's frames are gone.
NoRequest(i) ==
    /\ method' = [method EXCEPT ![i] = "GET"]
    /\ sentVersion' = [sentVersion EXCEPT ![i] = <<>>]
    /\ retriesLeft' = [retriesLeft EXCEPT ![i] = MAX_RETRIES]
    /\ settled' = [settled EXCEPT ![i] = NoResponse]
    /\ attempts' = [attempts EXCEPT ![i] = 0]
    /\ delays' = [delays EXCEPT ![i] = <<>>]
    /\ outcomes' = [outcomes EXCEPT ![i] = <<>>]
    /\ UNCHANGED puts

\* The handler returns its envelope.
Return(i, envelope) ==
    /\ pc' = [pc EXCEPT ![i] = "done"]
    /\ result' = [result EXCEPT ![i] = envelope]
    /\ NoRequest(i)

\* A tool call arrives: the handler calls the client operation, which runs to
\* its first await (createPage may throw before any request).
Invoke(i, t, a) ==
    /\ process = "running"
    /\ pc[i] = "idle"
    /\ a \in ArgsOf(t)
    /\ tool' = [tool EXCEPT ![i] = t]
    /\ args' = [args EXCEPT ![i] = a]
    /\ IF t = "confluence_create_page"
          /\ SpaceMissing(EffectiveSpace(a.spaceKey, defaultSpace))
       THEN Return(i, Handler(t, FALSE, MissingSpaceError))
       ELSE /\ BeginRequest(i, FirstMethod(t), <<>>)
            /\ UNCHANGED result
    /\ UNCHANGED << process, defaultSpace, pageVersion, injected, current, gets,
                    applied, pureVars >>

\* The await of fetchWithRetry in request() resumes (lines 373-378), then the
\* operation reads the JSON body and maps it; updatePage goes on to its PUT
\* (lines 295-321). parses: whether res.json() succeeds.
RequestReturns(i, parses) ==
    /\ pc[i] = "settled"
    /\ LET out == RequestOutcome(settled[i])
           isRead == tool[i] = "confluence_update_page" /\ method[i] = "GET"
       IN  IF ~out.ok
           THEN /\ Return(i, Handler(tool[i], FALSE, out.error))
                /\ UNCHANGED current
           ELSE IF ~parses
           THEN /\ Return(i, Handler(tool[i], FALSE, JsonSyntaxError))
                /\ UNCHANGED current
           ELSE IF isRead
           THEN /\ current' = [current EXCEPT ![i] = ToPageVersion(settled[i].version)]
                /\ BeginRequest(i, "PUT",
                                <<NextVersion(ToPageVersion(settled[i].version), args[i])>>)
                /\ UNCHANGED result
           ELSE /\ Return(i, Handler(tool[i], TRUE, NoError))
                /\ UNCHANGED current
    /\ UNCHANGED << process, defaultSpace, pageVersion, injected, tool, args, gets,
                    applied, pureVars >>

\* ---- main, src/unnamed/part_000 lines 8-36 ----------------------------------
\* the lines main writes with console.error once the config is built
StartupLog(cfg) ==
    << <<"[confluence-mcp] Connecting to", cfg.baseUrl, "as",
         IF cfg.username = <<>> THEN "undefined" ELSE cfg.username[1]>> >>
      \o (IF ~Falsy(cfg.defaultSpace)
          THEN << <<"[confluence-mcp] Default space:", cfg.defaultSpace[1]>> >>
          ELSE <<>>)
      \o << <<"[confluence-mcp] Server running on stdio">> >>

\* main: buildConfig() either ends the process in fatalConfig (console.error,
\* then process.exit(1)) or returns the config, from which the client is
\* constructed and the tools are registered.
Main ==
    /\ process = "starting"
    /\ LET built == buildConfig(env)
       IN  IF built.fatal # <<>>
           THEN /\ stderr' = Append(stderr, <<"Error:">> \o built.fatal[1])
                /\ process' = "exited"
                /\ UNCHANGED << config, client, registered, defaultSpace >>
           ELSE /\ config' = built.value
                /\ client' = << NewClient(built.value[1]) >>
                /\ defaultSpace' = built.value[1].defaultSpace
                /\ registered' = TRUE
                /\ stderr' = stderr \o StartupLog(built.value[1])
                /\ process' = "running"
    /\ UNCHANGED << env, requestVars, sanitizeVars, searchVars, mapVars >>

\* ---- searchPages / executeCqlSearch, lines 130-132 and 192-233 ---------------
\* A query, a space key and a CQL expression are sequences of characters; the
\* fixed pieces of the expression's template (type=page, " AND ", space=, ...)
\* are one symbol each.
Chars == { "a", " ", "\"", "\\" }

\* the longest query drawn
MaxQuery == 3

\* the largest limit drawn (and the smallest, negated)
MaxLimit == 100

Queries == UNION { [1..n -> Chars] : n \in 0..MaxQuery }

\* the spaceKey arguments of a search (optional)
SearchSpaceKeys ==
    { <<>>, << <<>> >>, << <<"S", "P">> >>, << <<"S", "\"">> >>, << <<"\\">> >> }

\* the characters of the strings the configuration holds
Characters(s) ==
    CASE s = "" -> <<>>
      [] s = "DS" -> <<"D", "S">>
      [] OTHER -> <<s>>

\* String.prototype.replace(/c/g, replacement) for a pattern of one character
RECURSIVE ReplaceEach(_, _, _)
ReplaceEach(text, c, replacement) ==
    IF text = <<>> THEN <<>>
    ELSE (IF Head(text) = c THEN replacement ELSE <<Head(text)>>)
           \o ReplaceEach(Tail(text), c, replacement)

\* mutant: only the double quotes are escaped
EscapeQuotesOnly(input) == ReplaceEach(input, "\"", <<"\\", "\"">>)

\* lines 130-132: input.replace(/\\/g, "\\\\").replace(/"/g, '\\"')
escapeCqlString(input) ==
    ReplaceEach(ReplaceEach(input, "\\", <<"\\", "\\">>), "\"", <<"\\", "\"">>)

\* String.prototype.trim: whitespace is dropped at both ends
RECURSIVE TrimStart(_)
TrimStart(text) ==
    IF text # <<>> /\ Head(text) = " " THEN TrimStart(Tail(text)) ELSE text

RECURSIVE TrimEnd(_)
TrimEnd(text) ==
    IF text # <<>> /\ text[Len(text)] = " "
    THEN TrimEnd(SubSeq(text, 1, Len(text) - 1)) ELSE text

TrimText(text) == TrimEnd(TrimStart(text))

\* Array.prototype.join
RECURSIVE Join(_, _)
Join(parts, separator) ==
    IF parts = <<>> THEN <<>>
    ELSE IF Len(parts) = 1 THEN parts[1]
    ELSE parts[1] \o separator \o Join(Tail(parts), separator)

\* line 197: spaceKey || this.defaultSpace, as characters (<<>> when neither)
SearchSpace(spaceKey, dflt) ==
    IF spaceKey # <<>> /\ spaceKey[1] # <<>> THEN spaceKey[1]
    ELSE IF dflt # <<>> THEN Characters(dflt[1])
    ELSE <<>>

\* lines 197-210: the expression searchPages passes on
BuildCql(query, spaceKey, dflt) ==
    LET space == SearchSpace(spaceKey, dflt)
        trimmedQuery == TrimText(query)
        safe == escapeCqlString(trimmedQuery)
        cqlParts ==
            << <<"type=page">> >>
              \o (IF space # <<>>
                  THEN << <<"space=", "\"">> \o escapeCqlString(space) \o <<"\"">> >>
                  ELSE <<>>)
              \o (IF trimmedQuery # <<>>
                  THEN << <<"(title~", "\"">> \o safe \o <<"\"", " OR text~", "\"">>
                            \o safe \o <<"\"", ")">> >>
                  ELSE <<>>)
    IN  Join(cqlParts, <<" AND ">>)

MathMax(a, b) == IF a >= b THEN a ELSE b
MathMin(a, b) == IF a <= b THEN a ELSE b

\* mutant: only the upper end is clamped
ClampUpperOnly(limit) == MathMin(limit, 50)

\* line 220: Math.min(Math.max(limit, 1), 50)
ClampLimit(limit) == MathMin(MathMax(limit, 1), 50)

\* lines 218-224: the parameters of the search request
SearchParams(cql, limit, expand) ==
    [cql |-> cql, limit |-> ClampLimit(limit), expand |-> expand]

\* searchPages(query, spaceKey, limit) up to the request of executeCqlSearch
SearchPages ==
    /\ search.op = "searchPages"
    /\ sent = <<>>
    /\ sent' = << SearchParams(BuildCql(search.query, search.spaceKey, defaultSpace),
                               search.limit, "space,version") >>
    /\ UNCHANGED << clientVars, search, sanitizeVars, mapVars, startupVars >>

\* executeCqlSearch(cql, limit) up to its request: the expression is sent as given
ExecuteCqlSearch ==
    /\ search.op = "executeCqlSearch"
    /\ sent = <<>>
    /\ sent' = << SearchParams(search.query, search.limit, "space,version") >>
    /\ UNCHANGED << clientVars, search, sanitizeVars, mapVars, startupVars >>

\* ---- getCurrentUser and toPageRecord, lines 172-190 and 326-360 -------------
\* A JSON scalar is tagged with its type; String(value) gives its text.
JsonString(text) == [type |-> "string", text |-> text]
JsonNumber(text) == [type |-> "number", text |-> text]
String(value) == value.text

\* the identity endpoint's JSON: each field absent (or null), empty or non-empty
UserJsons ==
    [kind : { "user" },
     accountId : { <<>>, <<"">>, <<"acc">> },
     userKey : { <<>>, <<"">>, <<"key">> },
     username : { <<>>, <<"">>, <<"usr">> }]

\* a content object of the upstream (ContentApiResult, lines 42-50)
ContentItems ==
    [kind : { "content" },
     id : { <<>>, <<JsonString("")>>, <<JsonString("42")>>, <<JsonNumber("42")>> },
     type : { <<>>, <<"blogpost">> },
     title : { <<>>, <<"">>, <<"T">> },
     space : { <<>>, <<[key |-> <<>>]>>, <<[key |-> <<"">>]>>, <<[key |-> <<"SP">>]>> },
     version : { <<>>, <<[number |-> <<>>]>>, <<[number |-> <<3>>]>> },
     webui : { <<>>, <<"/pages/viewpage.action?pageId=5">> }]

\* lines 182-189 (displayName and email are copied like the other fields)
CurrentUserOf(j) ==
    [id |-> Coalesce(j.accountId, Coalesce(j.userKey, Coalesce(j.username, <<"">>)))[1],
     accountId |-> j.accountId,
     username |-> j.username,
     userKey |-> j.userKey]

\* lines 341-360 for a relative link that starts with "/" and not with /wiki/
resolvePageUrl(webui, pageId, c) ==
    IF ~Falsy(webui)
    THEN IF c.mode = "cloud"
         THEN <<c.siteBaseUrl, "/wiki", webui[1]>>
         ELSE <<c.siteBaseUrl, webui[1]>>
    ELSE <<c.siteBaseUrl,
           IF c.mode = "cloud" THEN "/wiki/pages/viewpage.action?pageId="
           ELSE "/pages/viewpage.action?pageId=",
           pageId>>

\* lines 326-339
toPageRecord(item, c) ==
    LET pageId == String(Coalesce(item.id, <<JsonString("")>>)[1])
    IN  [id |-> pageId,
         type |-> Coalesce(item.type, <<"page">>)[1],
         title |-> Coalesce(item.title, <<"">>)[1],
         spaceKey |-> Coalesce(IF item.space = <<>> THEN <<>> ELSE item.space[1].key,
                               <<"">>)[1],
         url |-> resolvePageUrl(item.webui, pageId, c),
         version |-> ToPageVersion(IF item.version = <<>> THEN <<>>
                                   ELSE item.version[1].number)]

\* getCurrentUser once request() has returned and res.json() has parsed
GetCurrentUser ==
    /\ json.kind = "user"
    /\ mapped = <<>>
    /\ mapped' = << CurrentUserOf(json) >>
    /\ UNCHANGED << clientVars, json, sanitizeVars, searchVars, startupVars >>

\* searchPages, executeCqlSearch, getPage, createPage and updatePage once
\* request() has returned and res.json() has parsed: each content object goes
\* through toPageRecord
ToPageRecord ==
    /\ json.kind = "content"
    /\ mapped = <<>>
    /\ mapped' = << toPageRecord(json, client[1]) >>
    /\ UNCHANGED << clientVars, json, sanitizeVars, searchVars, startupVars >>

\* ---- sanitize, src/src/confluence.ts lines 55-59 --------------------------
\* A text is a sequence of symbols. "Basic" and "Bearer" stand for the keyword in
\* any letter case (the patterns carry the i flag); both are runs of letters, so
\* they belong to the base64 class and to \S. "x" is one further base64
\* character, "-" a character outside the base64 class that is no whitespace,
\* " " a whitespace character. "***" is the placeholder's three asterisks.
Symbols == { "Basic", "Bearer", "x", "-", " " }

\* the longest text drawn as a response body
MaxBody == 5

Bodies == UNION { [1..n -> Symbols] : n \in 0..MaxBody }

\* Each symbol is tagged with its position in the body; inserted text has src 0.
Tag(text) == [k \in 1..Len(text) |-> [sym |-> text[k], src |-> k]]
Inserted(sym) == [sym |-> sym, src |-> 0]

\* the character classes \s, [A-Za-z0-9+/=] and \S
SpaceClass == { " " }
Base64Class == { "Basic", "Bearer", "x" }
NonSpaceClass == (Symbols \cup { "***" }) \ SpaceClass

\* The end of the longest run from position p whose symbols are in the class
\* (p - 1 when the run is empty): a greedy + or *.
RECURSIVE RunEnd(_, _, _)
RunEnd(t, p, class) ==
    IF p <= Len(t) /\ t[p].sym \in class THEN RunEnd(t, p + 1, class) ELSE p - 1

\* String.prototype.replace with a global pattern <keyword>\s+<class>+: the
\* text is scanned from the left, each match is replaced by "<keyword> ***" and
\* the scan goes on after the match.
RECURSIVE ReplaceAll(_, _, _, _)
ReplaceAll(t, p, keyword, class) ==
    IF p > Len(t) THEN <<>>
    ELSE LET q == RunEnd(t, p + 1, SpaceClass)
             r == RunEnd(t, q + 1, class)
         IN  IF t[p].sym = keyword /\ q >= p + 1 /\ r >= q + 1
             THEN << Inserted(keyword), Inserted(" "), Inserted("***") >>
                    \o ReplaceAll(t, r + 1, keyword, class)
             ELSE << t[p] >> \o ReplaceAll(t, p + 1, keyword, class)

\* line 57: .replace(/Basic\s+[A-Za-z0-9+/=]+/gi, "Basic ***")
ReplaceBasic(t) == ReplaceAll(t, 1, "Basic", Base64Class)

\* line 58: .replace(/Bearer\s+\S+/gi, "Bearer ***")
ReplaceBearer(t) == ReplaceAll(t, 1, "Bearer", NonSpaceClass)

sanitize(text) == ReplaceBearer(ReplaceBasic(text))

\* ConfluenceApiError, line 68: the message ends with sanitize(body)
Sanitize ==
    /\ message = <<>>
    /\ message' = << sanitize(Tag(body)) >>
    /\ UNCHANGED << clientVars, body, searchVars, mapVars, startupVars >>

\* ---- specifications --------------------------------------------------------
\* No tool call yet.
RequestsInit ==
    /\ pageVersion = 1
    /\ injected = 0
    /\ tool = [i \in Inv |-> "none"]
    /\ args = [i \in Inv |-> NoArgs]
    /\ pc = [i \in Inv |-> "idle"]
    /\ method = [i \in Inv |-> "GET"]
    /\ sentVersion = [i \in Inv |-> <<>>]
    /\ retriesLeft = [i \in Inv |-> MAX_RETRIES]
    /\ settled = [i \in Inv |-> NoResponse]
    /\ current = [i \in Inv |-> <<>>]
    /\ result = [i \in Inv |-> NoResult]
    /\ attempts = [i \in Inv |-> 0]
    /\ delays = [i \in Inv |-> <<>>]
    /\ outcomes = [i \in Inv |-> <<>>]
    /\ gets = [i \in Inv |-> <<>>]
    /\ puts = [i \in Inv |-> <<>>]
    /\ applied = [i \in Inv |-> 0]

\* the values process.env may give the CONF_* variables
BaseUrls == { <<>>, <<" ">>, <<"https://wiki.example">>, <<"https://wiki.example/wiki/">> }
Modes == { <<>>, <<"Cloud">>, <<"server">>, <<"Data-Center">>, <<"onprem">> }
DeploymentModes == { <<>>, <<"cloud">> }
AuthModes == { <<>>, <<"auto">>, <<"basic">>, <<"Bearer">>, <<"digest">> }
Usernames == { <<>>, <<" ">>, <<" alice ">> }
Tokens == { <<>>, <<"">>, <<" ">>, <<"tok">> }
Passwords == { <<>>, <<"">>, <<"pw">> }
DefaultSpaces == { <<>>, <<"DS">> }

Envs ==
    [CONF_BASE_URL : BaseUrls, CONF_MODE : Modes,
     CONF_DEPLOYMENT_MODE : DeploymentModes, CONF_AUTH_MODE : AuthModes,
     CONF_USERNAME : Usernames, CONF_TOKEN : Tokens, CONF_PASSWORD : Passwords,
     CONF_DEFAULT_SPACE : DefaultSpaces]

\* the environment of a server started with a token and the default space ds
RunningEnv(ds) ==
    [CONF_BASE_URL |-> <<"https://wiki.example">>, CONF_MODE |-> <<>>,
     CONF_DEPLOYMENT_MODE |-> <<>>, CONF_AUTH_MODE |-> <<>>,
     CONF_USERNAME |-> <<>>, CONF_TOKEN |-> <<"tok">>, CONF_PASSWORD |-> <<>>,
     CONF_DEFAULT_SPACE |-> ds]

\* the pure-function specifications' variables when they are not in use
SanitizeIdle == body = <<>> /\ message = <<>>
NoSearch == [op |-> "none", query |-> <<>>, spaceKey |-> <<>>, limit |-> 10]
SearchIdle == search = NoSearch /\ sent = <<>>
NoJson == [kind |-> "none"]
MapIdle == json = NoJson /\ mapped = <<>>

\* The process after main has run: the client and the upstream after
\* construction, no tool call yet.
ClientInit ==
    /\ process = "running"
    /\ defaultSpace \in DefaultSpaces
    /\ env = RunningEnv(defaultSpace)
    /\ config = buildConfig(env).value
    /\ client = << NewClient(config[1]) >>
    /\ registered = TRUE
    /\ stderr = StartupLog(config[1])
    /\ RequestsInit

Init ==
    /\ ClientInit
    /\ SanitizeIdle
    /\ SearchIdle
    /\ MapIdle

\* One tool invocation at a time, any outcome of any attempt.
Next ==
    \/ \E t \in Tools : \E a \in ArgsOf(t) : Invoke(1, t, a)
    \/ \E status \in {200, 400, 404, 409, 500, 503} :
         \E ver \in { <<>>, <<pageVersion>> } : \E eff \in BOOLEAN :
           FetchResolves(1, status, ver, eff, FALSE)
    \/ \E eff \in BOOLEAN : NetworkFault(1, eff, FALSE)
    \/ \E eff \in BOOLEAN : TimeoutAbort(1, eff, FALSE)
    \/ SleepDone(1)
    \/ \E parses \in BOOLEAN : RequestReturns(1, parses)
    \/ ExternalEdit

Spec == Init /\ [][Next]_vars

\* NumInv invocations of confluence_update_page interleaved with each other and
\* with another actor's edits; at most MaxFaults attempts fail in transport (a
\* 5xx, or a rejected fetch: the catch block does not tell an abort by the timer
\* from a network fault, so the rejections are drawn as network faults).
ConcNext ==
    \/ \E i \in Inv : Invoke(i, "confluence_update_page", NoArgs)
    \/ \E i \in Inv : \E status \in {200, 409, 503} : \E eff \in BOOLEAN :
         FetchResolves(i, status,
                       IF method[i] = "GET" /\ status = 200
                       THEN <<pageVersion>> ELSE <<>>,
                       eff, TRUE)
    \/ \E i \in Inv : \E eff \in BOOLEAN : NetworkFault(i, eff, TRUE)
    \/ \E i \in Inv : SleepDone(i)
    \/ \E i \in Inv : RequestReturns(i, TRUE)
    \/ ExternalEdit

ConcInit == Init /\ defaultSpace = <<>>

ConcSpec == ConcInit /\ [][ConcNext]_vars

\* sanitize applied to every body of at most MaxBody symbols.
SanitizeInit ==
    /\ ClientInit
    /\ defaultSpace = <<>>
    /\ body \in Bodies
    /\ message = <<>>
    /\ SearchIdle
    /\ MapIdle

SanitizeNext == Sanitize

SanitizeSpec == SanitizeInit /\ [][SanitizeNext]_vars

\* The search calls drawn: every query and space key with the default limit,
\* and every limit with one query, for both operations.
SearchCalls ==
    { [op |-> "searchPages", query |-> q, spaceKey |-> k, limit |-> 10] :
        q \in Queries, k \in SearchSpaceKeys }
      \cup { [op |-> o, query |-> <<"a">>, spaceKey |-> <<>>, limit |-> l] :
               o \in { "searchPages", "executeCqlSearch" },
               l \in (0 - MaxLimit)..MaxLimit }

SearchInit ==
    /\ ClientInit
    /\ search \in SearchCalls
    /\ sent = <<>>
    /\ SanitizeIdle
    /\ MapIdle

SearchNext == SearchPages \/ ExecuteCqlSearch

SearchSpec == SearchInit /\ [][SearchNext]_vars

\* The mapping of every JSON a successful response may carry.
MapInit ==
    /\ ClientInit
    /\ defaultSpace = <<>>
    /\ json \in UserJsons \cup ContentItems
    /\ mapped = <<>>
    /\ SanitizeIdle
    /\ SearchIdle

MapNext == GetCurrentUser \/ ToPageRecord

MapSpec == MapInit /\ [][MapNext]_vars

\* The timer of a pending attempt fires (line 102) and a sleep ends (line 127):
\* the event loop runs a due timer eventually. Nothing bounds the reading of a
\* response body after fetchWithRetry returned (the timer is cleared by then),
\* so no fairness is stated for RequestReturns.
Fairness ==
    /\ WF_vars(\E eff \in BOOLEAN : TimeoutAbort(1, eff, FALSE))
    /\ WF_vars(SleepDone(1))

FairSpec == Init /\ [][Next]_vars /\ Fairness

\* The process from its start: main runs on every environment, and a started
\* server answers a get_current_user call.
StartupInit ==
    /\ process = "starting"
    /\ env \in Envs
    /\ config = <<>>
    /\ client = <<>>
    /\ registered = FALSE
    /\ stderr = <<>>
    /\ defaultSpace = <<>>
    /\ RequestsInit
    /\ SanitizeIdle
    /\ SearchIdle
    /\ MapIdle

StartupNext ==
    \/ Main
    \/ Invoke(1, "confluence_get_current_user", NoArgs)
    \/ \E status \in {200, 401} : FetchResolves(1, status, <<>>, FALSE, FALSE)
    \/ RequestReturns(1, TRUE)

StartupSpec == StartupInit /\ [][StartupNext]_vars

\* ---- properties -------------------------------------------------------------
IsFault(o) == o.kind \in {"fault", "timeout"}
IsResponse(o) == o.kind = "response"
Is4xx(o) == IsResponse(o) /\ o.status >= 400 /\ o.status <= 499
Is5xx(o) == IsResponse(o) /\ o.status >= 500
Response(status) == [kind |-> "response", status |-> status]

\* C1: one call of the transport makes at most 3 attempts (1 initial + 2
\* retries), and an attempt is followed by another one only if it returned a
\* status >= 500 or raised a network/timeout fault while retries remained.
C1_AtMostThreeAttempts ==
    \A i \in Inv :
      /\ attempts[i] <= 3
      /\ attempts[i] <= MAX_RETRIES + 1
      /\ \A k \in 1..Len(outcomes[i]) :
           k < attempts[i] =>
             /\ Is5xx(outcomes[i][k]) \/ IsFault(outcomes[i][k])
             /\ k <= MAX_RETRIES

C1_Witness ==
    /\ pc[1] = "settled"
    /\ attempts[1] = 3
    /\ outcomes[1] = << Response(503), [kind |-> "fault", status |-> 0], Response(200) >>

\* C2: a 4xx response is terminal: it is the last attempt of its request, no
\* backoff delay follows it, fetchWithRetry returns it at once, and the request
\* fails with a ConfluenceApiError carrying that status, which is what the tool
\* returns in its error envelope.
C2_FourXXTerminal ==
    /\ [](\A i \in Inv : \A k \in 1..Len(outcomes[i]) :
            Is4xx(outcomes[i][k]) =>
              /\ k = Len(outcomes[i])
              /\ attempts[i] = k
              /\ Len(delays[i]) = k - 1
              /\ pc[i] = "settled"
              /\ settled[i].kind = "response"
              /\ settled[i].status = outcomes[i][k].status)
    /\ [][\A i \in Inv :
            (pc[i] = "settled" /\ settled[i].kind = "response"
               /\ settled[i].status >= 400 /\ settled[i].status <= 499
               /\ pc'[i] # pc[i])
            => /\ pc'[i] = "done"
               /\ result'[i] = errorContent(ConfluenceApiError(settled[i].status))
               /\ result'[i].http = settled[i].status
               /\ puts'[i] = puts[i]]_vars

C2_Witness ==
    /\ pc[1] = "settled"
    /\ retriesLeft[1] = MAX_RETRIES
    /\ outcomes[1] = << Response(404) >>

\* C3: exactly one backoff delay is taken between consecutive attempts of a
\* request, 500 ms before the second attempt and 1000 ms before the third; a 503
\* followed by a 200 gives a successful result after one delay of 500 ms and
\* two attempts.
C3_ExponentialBackoff ==
    \A i \in Inv :
      /\ delays[i] \in { <<>>, <<500>>, <<500, 1000>> }
      /\ pc[i] \in {"fetch", "settled"} => Len(delays[i]) = attempts[i] - 1
      /\ pc[i] = "sleep" => Len(delays[i]) = attempts[i]
      /\ (pc[i] = "settled" /\ outcomes[i] = << Response(503), Response(200) >>)
           => /\ delays[i] = <<500>>
              /\ attempts[i] = 2
              /\ settled[i].kind = "response" /\ settled[i].status = 200
              /\ RequestOutcome(settled[i]).ok

C3_Witness ==
    /\ pc[1] = "settled"
    /\ outcomes[1] = << Response(503), Response(200) >>
    /\ delays[1] = <<500>>

C3_WitnessTwoDelays == \E i \in Inv : delays[i] = <<500, 1000>>

\* C4: every call of the transport terminates, even when the upstream never
\* answers: the timer aborts the attempt, the abort consumes one attempt of the
\* budget like a network fault, and after at most 3 attempts and 2 delays
\* fetchWithRetry has returned or thrown.
C4_TransportTerminates ==
    /\ \A i \in Inv : (pc[i] \in {"fetch", "sleep"}) ~> (pc[i] = "settled")
    /\ [](\A i \in Inv : attempts[i] <= 3 /\ Len(delays[i]) <= 2)
    /\ [](\A i \in Inv : \A k \in 1..Len(outcomes[i]) :
            outcomes[i][k].kind = "timeout" =>
              /\ k <= MAX_RETRIES => Len(delays[i]) >= k
              /\ k > MAX_RETRIES =>
                   (pc[i] = "settled" /\ settled[i].kind = "thrown"))

C4_Witness ==
    /\ pc[1] = "settled"
    /\ settled[1].kind = "thrown"
    /\ \A k \in 1..3 : outcomes[1][k].kind = "timeout"
    /\ Len(outcomes[1]) = 3

\* C5: when all 3 attempts end in a network or timeout fault, the request fails
\* with the generic error "Request failed after retries", which is no
\* ConfluenceApiError and carries no status; that error is raised only once the
\* retry budget is exhausted.
C5_GenericAfterExhaustion ==
    /\ [](\A i \in Inv : pc[i] = "settled" =>
            /\ (Len(outcomes[i]) = 3 /\ \A k \in 1..3 : IsFault(outcomes[i][k]))
                 => /\ settled[i].kind = "thrown"
                    /\ RequestOutcome(settled[i]).error.message
                         = "Request failed after retries"
                    /\ RequestOutcome(settled[i]).error.name # "ConfluenceApiError"
                    /\ RequestOutcome(settled[i]).error.status = 0
            /\ settled[i].kind = "thrown"
                 => /\ attempts[i] = 3
                    /\ retriesLeft[i] = 0
                    /\ Len(outcomes[i]) = 3
                    /\ IsFault(outcomes[i][3]))
    /\ [][\A i \in Inv :
            (pc[i] # "done" /\ pc'[i] = "done"
               /\ result'[i].text = "Request failed after retries")
            => (pc[i] = "settled" /\ settled[i].kind = "thrown" /\ attempts[i] = 3)]_vars

C5_Witness ==
    /\ pc[1] = "settled"
    /\ Len(outcomes[1]) = 3
    /\ \A k \in 1..3 : IsFault(outcomes[1][k])
    /\ settled[1].kind = "thrown"

\* C6 as stated: a request whose attempts keep returning 5xx is surfaced to the
\* caller as the generic failure once the retries are exhausted.
C6_Original ==
    [][\A i \in Inv :
         (pc[i] = "settled" /\ attempts[i] = 3 /\ Is5xx(outcomes[i][3])
            /\ pc'[i] = "done")
         => result'[i].text = "Request failed after retries"]_vars

\* C6 amended: a request whose attempts keep returning 5xx is retried twice with
\* backoff (500 ms, 1000 ms); the third 5xx is returned by fetchWithRetry and
\* surfaced as a ConfluenceApiError carrying that status, not as the generic
\* failure.
C6_FinalServerErrorIsApiError ==
    /\ [](\A i \in Inv :
            (pc[i] = "settled" /\ Len(outcomes[i]) >= 1
               /\ Is5xx(outcomes[i][Len(outcomes[i])]))
            => /\ attempts[i] = 3
               /\ delays[i] = <<500, 1000>>
               /\ settled[i].kind = "response"
               /\ settled[i].status = outcomes[i][3].status)
    /\ [][\A i \in Inv :
            (pc[i] = "settled" /\ settled[i].kind = "response"
               /\ settled[i].status >= 500 /\ pc'[i] = "done")
            => /\ result'[i] = errorContent(ConfluenceApiError(settled[i].status))
               /\ result'[i].text = "Confluence API error"
               /\ result'[i].http = settled[i].status]_vars

C6_Witness ==
    /\ pc[1] = "settled"
    /\ outcomes[1] = << Response(503), Response(503), Response(503) >>
    /\ settled[1].kind = "response"

\* The message texts an error envelope can carry.
ErrorTexts ==
    { friendlyStatus(st) : st \in {400, 404, 409, 500, 503} }
      \cup { RetriesFailedError.message, MissingSpaceError.message,
             JsonSyntaxError.message }

\* C7: for each of the six tools and every outcome of the client call (success,
\* ConfluenceApiError, generic retry failure, missing-space error, JSON parsing
\* failure) the handler returns the success envelope or the error envelope with
\* the error's message; nothing propagates past the handler and the process
\* keeps running.
C7_HandlerAlwaysReturnsEnvelope ==
    /\ [](process = "running")
    /\ [](\A i \in Inv :
            /\ pc[i] # "done" => result[i] = NoResult
            /\ pc[i] = "done" =>
                 /\ tool[i] \in Tools
                 /\ result[i].kind = "returned"
                 /\ \/ ~result[i].isError /\ result[i].text = "payload"
                    \/ result[i].isError /\ result[i].text \in ErrorTexts)
    /\ [][\A i \in Inv :
            /\ (pc[i] = "idle" /\ pc'[i] = "done")
                 => result'[i] = errorContent(MissingSpaceError)
            /\ (pc[i] = "settled" /\ pc'[i] # "settled")
                 => IF ~RequestOutcome(settled[i]).ok
                    THEN /\ pc'[i] = "done"
                         /\ result'[i] = errorContent(RequestOutcome(settled[i]).error)
                    ELSE \/ pc'[i] = "done" /\ result'[i] = jsonContent
                         \/ pc'[i] = "done"
                              /\ result'[i] = errorContent(JsonSyntaxError)
                         \/ pc'[i] = "fetch" /\ method'[i] = "PUT"
                              /\ tool[i] = "confluence_update_page"]_vars

C7_Witness ==
    /\ pc[1] = "done"
    /\ tool[1] = "confluence_create_page"
    /\ result[1] = errorContent(MissingSpaceError)

C7_WitnessParseFailure ==
    /\ pc[1] = "done"
    /\ tool[1] = "confluence_update_page"
    /\ result[1] = errorContent(JsonSyntaxError)
    /\ puts[1] # <<>>

\* The positions of the body that belong to the secret of a credential: the
\* base64 run after "Basic" and whitespace, the token (run of non-whitespace)
\* after "Bearer" and whitespace.
SecretPositions(t) ==
    { j \in 1..Len(t) :
        \E p \in 1..Len(t) :
          LET q == RunEnd(t, p + 1, SpaceClass)
          IN  /\ q >= p + 1
              /\ q < j
              /\ \/ t[p].sym = "Basic" /\ j <= RunEnd(t, q + 1, Base64Class)
                 \/ t[p].sym = "Bearer" /\ j <= RunEnd(t, q + 1, NonSpaceClass) }

\* C8: for every response body, the message of the error raised for it holds no
\* part of a credential's secret: every `Basic <base64>` and `Bearer <token>` of
\* the body has its secret replaced by ***.
C8_NoCredentialInMessage ==
    message # <<>> =>
      \A k \in 1..Len(message[1]) :
        message[1][k].src \notin SecretPositions(Tag(body))

\* C9: every PUT of an updatePage invocation follows a successful GET of the same
\* invocation and carries the version that GET returned plus 1 (1 when the
\* upstream omitted the version), whatever the caller passed; no PUT is sent
\* when the GET failed.
C9_PutCarriesReadVersionPlusOne ==
    \A i \in Inv :
      /\ Len(gets[i]) <= 1
      /\ method[i] = "PUT" =>
           (puts[i] # <<>> /\ sentVersion[i] = puts[i][Len(puts[i])])
      /\ puts[i] # <<>> =>
           /\ tool[i] = "confluence_update_page"
           /\ Len(gets[i]) = 1
           /\ \A k \in 1..Len(puts[i]) :
                puts[i][k] = << IF gets[i][1] = <<>> THEN 1 ELSE gets[i][1][1] + 1 >>

C9_Witness ==
    /\ gets[1] = << <<3>> >>
    /\ puts[1] = << <<4>> >>
    /\ args[1].version = <<1>>

C9_WitnessOmitted == gets[1] = << <<>> >> /\ puts[1] = << <<1>>, <<1>> >>

\* The page changed after invocation i read it.
Stale(i) == gets[i] # <<>> /\ gets[i][1] # <<pageVersion>>

\* C10: when another actor (an editor, or a second updatePage invocation) changes
\* the page between an invocation's read and its write, the upstream rejects the
\* write with 409; updatePage returns that error without reading again and
\* without sending the PUT again, and a stale write is never applied.
C10_StaleWriteRejected ==
    /\ [](\A i \in Inv :
            /\ Len(gets[i]) <= 1
            /\ (method[i] = "PUT" /\ Stale(i)) => ~VersionAccepted(sentVersion[i])
            /\ \A k \in 1..Len(outcomes[i]) :
                 outcomes[i][k] = Response(409) =>
                   (k = Len(outcomes[i]) /\ attempts[i] = k /\ pc[i] = "settled"))
    /\ [][\A i \in Inv :
            /\ applied'[i] > applied[i] =>
                 (~Stale(i) /\ sentVersion[i] = <<pageVersion'>>)
            /\ (pc[i] = "fetch" /\ method[i] = "PUT" /\ Stale(i)
                  /\ pc'[i] = "settled" /\ settled'[i].kind = "response")
                 => (settled'[i].status \in {409, 503} /\ applied'[i] = applied[i])
            /\ (pc[i] = "settled" /\ settled[i] = [kind |-> "response",
                                                   status |-> 409, version |-> <<>>]
                  /\ pc'[i] # "settled")
                 => /\ pc'[i] = "done"
                    /\ result'[i] = errorContent(ConfluenceApiError(409))
                    /\ puts'[i] = puts[i]
                    /\ gets'[i] = gets[i]]_vars

C10_Witness ==
    \E i \in Inv : \E j \in Inv \ {i} :
      /\ pc[i] = "done"
      /\ result[i].http = 409
      /\ applied[i] = 0
      /\ applied[j] = 1
      /\ pageVersion = 2

C10_WitnessEditor ==
    \E i \in Inv :
      /\ pc[i] = "done"
      /\ result[i].http = 409
      /\ \A j \in Inv : applied[j] = 0

\* ---- startup properties ------------------------------------------------------
\* What the environment e gives, read as the decision table of the resolver.
HasBaseUrl(e) == e.CONF_BASE_URL # <<>> /\ trim(e.CONF_BASE_URL[1]) # ""
HasUsername(e) == e.CONF_USERNAME # <<>> /\ trim(e.CONF_USERNAME[1]) # ""
HasToken(e) == e.CONF_TOKEN # <<>> /\ e.CONF_TOKEN[1] # ""
HasPassword(e) == e.CONF_PASSWORD # <<>> /\ e.CONF_PASSWORD[1] # ""

\* the mode and the auth mode selected by e ("unknown" when it is no valid name)
SelectedMode(e) ==
    LET name == IF e.CONF_MODE # <<>> /\ trim(e.CONF_MODE[1]) # ""
                THEN toLowerCase(trim(e.CONF_MODE[1]))
                ELSE IF e.CONF_DEPLOYMENT_MODE # <<>>
                        /\ trim(e.CONF_DEPLOYMENT_MODE[1]) # ""
                THEN toLowerCase(trim(e.CONF_DEPLOYMENT_MODE[1]))
                ELSE "server"
    IN  IF name = "cloud" THEN "cloud"
        ELSE IF name \in { "server", "dc", "datacenter", "data-center" } THEN "server"
        ELSE "unknown"

SelectedAuthMode(e) ==
    LET name == IF e.CONF_AUTH_MODE # <<>> /\ trim(e.CONF_AUTH_MODE[1]) # ""
                THEN toLowerCase(trim(e.CONF_AUTH_MODE[1]))
                ELSE "auto"
    IN  IF name \in { "auto", "basic", "bearer" } THEN name ELSE "unknown"

\* A required input is missing or invalid for the selected combination.
InvalidEnv(e) ==
    \/ ~HasBaseUrl(e)
    \/ SelectedMode(e) = "unknown"
    \/ SelectedAuthMode(e) = "unknown"
    \/ SelectedMode(e) = "cloud"
         /\ (~HasUsername(e) \/ (~HasToken(e) /\ ~HasPassword(e)))
    \/ SelectedMode(e) = "server" /\ SelectedAuthMode(e) = "bearer" /\ ~HasToken(e)
    \/ SelectedMode(e) = "server" /\ SelectedAuthMode(e) = "basic"
         /\ (~HasUsername(e) \/ (~HasPassword(e) /\ ~HasToken(e)))
    \/ SelectedMode(e) = "server" /\ SelectedAuthMode(e) = "auto"
         /\ ~HasToken(e) /\ ~(HasUsername(e) /\ HasPassword(e))

\* The diagnostic line names a requirement that e does not meet.
NamesMissingRequirement(line, e) ==
    \/ /\ line = <<"Error:", "Required environment variable", "CONF_BASE_URL", "is not set.">>
       /\ ~HasBaseUrl(e)
    \/ /\ line = <<"Error:", "CONF_MODE must be one of: cloud, server (or CONF_DEPLOYMENT_MODE).">>
       /\ SelectedMode(e) = "unknown"
    \/ /\ line = <<"Error:", "CONF_AUTH_MODE must be one of: auto, basic, bearer.">>
       /\ SelectedAuthMode(e) = "unknown"
    \/ /\ line = <<"Error:", "CONF_USERNAME is required in cloud mode.">>
       /\ SelectedMode(e) = "cloud" /\ ~HasUsername(e)
    \/ /\ line = <<"Error:", "Cloud mode requires CONF_TOKEN (preferred) or CONF_PASSWORD.">>
       /\ SelectedMode(e) = "cloud" /\ ~HasToken(e) /\ ~HasPassword(e)
    \/ /\ line = <<"Error:", "CONF_AUTH_MODE=bearer requires CONF_TOKEN.">>
       /\ SelectedMode(e) = "server" /\ SelectedAuthMode(e) = "bearer" /\ ~HasToken(e)
    \/ /\ line = <<"Error:", "CONF_AUTH_MODE=basic requires CONF_USERNAME.">>
       /\ SelectedMode(e) = "server" /\ SelectedAuthMode(e) = "basic" /\ ~HasUsername(e)
    \/ /\ line = <<"Error:", "CONF_AUTH_MODE=basic requires CONF_PASSWORD (or CONF_TOKEN as password).">>
       /\ SelectedMode(e) = "server" /\ SelectedAuthMode(e) = "basic"
       /\ ~HasPassword(e) /\ ~HasToken(e)
    \/ /\ line = <<"Error:", "Server auto mode with CONF_PASSWORD requires CONF_USERNAME.">>
       /\ SelectedMode(e) = "server" /\ SelectedAuthMode(e) = "auto"
       /\ ~HasToken(e) /\ HasPassword(e) /\ ~HasUsername(e)
    \/ /\ line = <<"Error:", "Server mode requires CONF_TOKEN (Bearer) or CONF_USERNAME + CONF_PASSWORD.">>
       /\ SelectedMode(e) = "server" /\ SelectedAuthMode(e) = "auto"
       /\ ~HasToken(e) /\ ~HasPassword(e)

\* C11: when a required input is missing or invalid for the selected mode and
\* auth mode, startup writes one diagnostic naming a requirement the environment
\* does not meet and the process exits: no config value, no client, no tool
\* registered, no tool call served and no upstream request, ever after.
C11_InvalidConfigIsFatal ==
    /\ []((InvalidEnv(env) /\ process # "starting") =>
            /\ process = "exited"
            /\ config = <<>>
            /\ client = <<>>
            /\ ~registered
            /\ Len(stderr) = 1
            /\ NamesMissingRequirement(stderr[1], env)
            /\ \A i \in Inv :
                 /\ pc[i] = "idle" /\ tool[i] = "none"
                 /\ attempts[i] = 0 /\ outcomes[i] = <<>>)
    /\ [][process = "exited" => UNCHANGED vars]_vars
    /\ [][process = "starting" =>
            (process' = "exited" <=> InvalidEnv(env))]_vars

\* server mode, auto, a password but no username and no token
C11_Witness ==
    /\ process = "exited"
    /\ env.CONF_MODE = <<"Data-Center">>
    /\ env.CONF_AUTH_MODE = <<>>
    /\ env.CONF_PASSWORD = <<"pw">>
    /\ env.CONF_USERNAME = <<" ">>
    /\ stderr = << <<"Error:", "Server auto mode with CONF_PASSWORD requires CONF_USERNAME.">> >>

\* the header of the decision table for an environment that passes validation
ExpectedHeader(e) ==
    LET user == trim(e.CONF_USERNAME[1])
        viaBasic(secret) ==
            [scheme |-> "Basic", credentials |-> base64(<<user, ":", secret>>)]
        viaBearer == [scheme |-> "Bearer", credentials |-> <<e.CONF_TOKEN[1]>>]
    IN  IF SelectedMode(e) = "cloud"
        THEN viaBasic(IF HasToken(e) THEN e.CONF_TOKEN[1] ELSE e.CONF_PASSWORD[1])
        ELSE IF SelectedAuthMode(e) = "bearer" THEN viaBearer
        ELSE IF SelectedAuthMode(e) = "basic"
        THEN viaBasic(IF HasPassword(e) THEN e.CONF_PASSWORD[1] ELSE e.CONF_TOKEN[1])
        ELSE IF HasToken(e) THEN viaBearer
        ELSE viaBasic(e.CONF_PASSWORD[1])

\* C12: for every environment that passes validation the resolved scheme and
\* the Authorization header are those of the decision table: cloud -> Basic of
\* username:secret with the token preferred; server bearer -> Bearer token;
\* server basic -> Basic with the password or else the token; server auto ->
\* Bearer when a token is present, otherwise Basic of username:password.
C12_HeaderFollowsDecisionTable ==
    process = "running" =>
      /\ ~InvalidEnv(env)
      /\ config # <<>> /\ client # <<>>
      /\ config[1].authHeader = ExpectedHeader(env)
      /\ config[1].resolvedAuthMode = toLowerCase(ExpectedHeader(env).scheme)
      /\ client[1].headers.Authorization = ExpectedHeader(env)

\* cloud with both secrets: the token is the secret
C12_Witness ==
    /\ process = "running"
    /\ pc[1] = "done"
    /\ env.CONF_DEPLOYMENT_MODE = <<"cloud">> /\ env.CONF_MODE = <<>>
    /\ env.CONF_TOKEN = <<"tok">> /\ env.CONF_PASSWORD = <<"pw">>
    /\ client[1].headers.Authorization
         = [scheme |-> "Basic", credentials |-> <<"base64", "alice", ":", "tok">>]

\* ---- createPage ---------------------------------------------------------------
\* a space key that names a space: given and not the empty string
Available(space) == space # <<>> /\ space # <<"">>

\* C13: a createPage call fails with the missing-space error if and only if
\* neither the explicit spaceKey nor the configured default is available
\* (spaceKey absent, empty or non-empty; default unset or set), and a call that
\* fails this way has made no upstream request.
C13_MissingSpaceIffNeitherAvailable ==
    [][\A i \in Inv :
         (pc[i] = "idle" /\ pc'[i] # "idle" /\ tool'[i] = "confluence_create_page")
         => /\ (pc'[i] = "done" /\ result'[i] = errorContent(MissingSpaceError))
                 <=> (~Available(args'[i].spaceKey) /\ ~Available(defaultSpace))
            /\ pc'[i] = "done" =>
                 (attempts'[i] = 0 /\ outcomes'[i] = <<>> /\ applied'[i] = 0)]_vars

\* ---- search properties -------------------------------------------------------
\* C14: the limit parameter sent by executeCqlSearch and by searchPages is
\* min(max(limit, 1), 50) for every integer limit: it lies in [1, 50], 100 gives
\* 50 and 0 gives 1.
C14_LimitClamped ==
    sent # <<>> =>
      /\ sent[1].limit \in 1..50
      /\ sent[1].limit = (IF search.limit < 1 THEN 1
                          ELSE IF search.limit > 50 THEN 50 ELSE search.limit)
      /\ search.limit = 100 => sent[1].limit = 50
      /\ search.limit = 0 => sent[1].limit = 1

C14_Witness ==
    /\ search.op = "executeCqlSearch"
    /\ search.limit = 0
    /\ sent # <<>>
    /\ sent[1].limit = 1

C14_WitnessUpper ==
    /\ search.op = "searchPages"
    /\ search.limit = 100
    /\ sent # <<>>
    /\ sent[1].limit = 50

\* The reading of a CQL expression: a double quote opens a string literal, in
\* which a backslash takes the next character literally and a double quote ends
\* the literal. The result lists the pieces outside literals and the decoded
\* text of each literal.
RECURSIVE Lex(_, _, _, _)
Lex(e, p, inLiteral, text) ==
    IF p > Len(e)
    THEN IF inLiteral THEN << [kind |-> "unterminated", text |-> text] >> ELSE <<>>
    ELSE IF ~inLiteral
    THEN IF e[p] = "\"" THEN Lex(e, p + 1, TRUE, <<>>)
         ELSE << [kind |-> "code", text |-> <<e[p]>>] >> \o Lex(e, p + 1, FALSE, <<>>)
    ELSE IF e[p] = "\\"
    THEN IF p + 1 > Len(e) THEN << [kind |-> "unterminated", text |-> text] >>
         ELSE Lex(e, p + 2, TRUE, Append(text, e[p + 1]))
    ELSE IF e[p] = "\""
    THEN << [kind |-> "literal", text |-> text] >> \o Lex(e, p + 1, FALSE, <<>>)
    ELSE Lex(e, p + 1, TRUE, Append(text, e[p]))

Piece(sym) == [kind |-> "code", text |-> <<sym>>]
Literal(text) == [kind |-> "literal", text |-> text]

\* a text without leading or trailing whitespace
Trimmed(text, of) ==
    \E a \in 0..Len(of) : \E b \in a..Len(of) :
      /\ text = SubSeq(of, a + 1, b)
      /\ \A k \in 1..a : of[k] = " "
      /\ \A k \in (b + 1)..Len(of) : of[k] = " "
      /\ text # <<>> => (text[1] # " " /\ text[Len(text)] # " ")

\* the space the search is restricted to (<<>> when none is given)
GivenSpace ==
    IF search.spaceKey # <<>> /\ search.spaceKey[1] # <<>> THEN search.spaceKey[1]
    ELSE IF defaultSpace = <<"DS">> THEN <<"D", "S">>
    ELSE <<>>

\* C15: the expression of searchPages reads as `type=page`, then
\* ` AND space="<space>"` iff an explicit or default space is given, then
\* ` AND (title~"<q>" OR text~"<q>")` iff the trimmed query q is non-empty, and
\* each literal decodes to exactly the user's text: no backslash or double
\* quote of the input ends a literal or escapes the closing quote.
C15_CqlWellFormed ==
    (sent # <<>> /\ search.op = "searchPages") =>
      \E q \in Queries :
        /\ Trimmed(q, search.query)
        /\ Lex(sent[1].cql, 1, FALSE, <<>>) =
             << Piece("type=page") >>
               \o (IF GivenSpace # <<>>
                   THEN << Piece(" AND "), Piece("space="), Literal(GivenSpace) >>
                   ELSE <<>>)
               \o (IF q # <<>>
                   THEN << Piece(" AND "), Piece("(title~"), Literal(q),
                           Piece(" OR text~"), Literal(q), Piece(")") >>
                   ELSE <<>>)

\* searchPages("a\"", "S\"") : both quotes are escaped
C15_Witness ==
    /\ search.op = "searchPages"
    /\ search.query = <<" ", "a", "\"">>
    /\ search.spaceKey = << <<"S", "\"">> >>
    /\ sent # <<>>
    /\ sent[1].cql = << "type=page", " AND ", "space=", "\"", "S", "\\", "\"", "\"",
                        " AND ", "(title~", "\"", "a", "\\", "\"", "\"",
                        " OR text~", "\"", "a", "\\", "\"", "\"", ")" >>

\* ---- mapping properties ------------------------------------------------------
NonEmpty(v) == v # <<>> /\ v # <<"">>

\* C16: the unified id of getCurrentUser is the first non-empty value among
\* accountId, userKey, username, whichever of them are absent, empty or
\* non-empty; it is empty only when none of the three is non-empty.
C16_IdIsFirstNonEmpty ==
    (mapped # <<>> /\ json.kind = "user") =>
      mapped[1].id = (IF NonEmpty(json.accountId) THEN json.accountId[1]
                      ELSE IF NonEmpty(json.userKey) THEN json.userKey[1]
                      ELSE IF NonEmpty(json.username) THEN json.username[1]
                      ELSE "")

\* C17: every Page mapped from a successful response has a non-empty id, and a
\* title and a spaceKey that are the upstream's strings or the empty string,
\* whatever the content object contains or omits.
C17_PageIdNonEmpty ==
    (mapped # <<>> /\ json.kind = "content") =>
      /\ mapped[1].id # ""
      /\ mapped[1].title = (IF json.title = <<>> THEN "" ELSE json.title[1])
      /\ mapped[1].spaceKey =
           (IF json.space = <<>> \/ json.space[1].key = <<>> THEN ""
            ELSE json.space[1].key[1])

\* ---- concurrency and write properties ---------------------------------------
\* what belongs to invocation i: its handler's locals and its request's frames
Local(i) ==
    << tool[i], args[i], pc[i], method[i], sentVersion[i], retriesLeft[i],
       settled[i], current[i], result[i], attempts[i], delays[i], outcomes[i],
       gets[i], puts[i] >>

\* the delays that follow n failed attempts
DelaysAfter(n) == [k \in 1..n |-> BASE_DELAY_MS * Pow2(k - 1)]

\* C18: with several tool invocations in flight, no step changes the client's
\* configuration, base URLs or headers; a step advances one invocation and
\* leaves every other invocation's request and result as they were; and the
\* attempt count, the retry budget and the delays of a request are functions of
\* the outcomes of its own attempts.
C18_InvocationsAreIndependent ==
    /\ [][/\ config' = config /\ client' = client
          /\ defaultSpace' = defaultSpace /\ env' = env
          /\ \A i \in Inv : \A j \in Inv \ {i} :
               Local(j)' # Local(j) => Local(i)' = Local(i)]_vars
    /\ [](\A i \in Inv :
            LET n == Len(outcomes[i])
            IN  /\ pc[i] = "fetch" =>
                     /\ attempts[i] = n + 1
                     /\ retriesLeft[i] = MAX_RETRIES - n
                     /\ delays[i] = DelaysAfter(n)
                /\ pc[i] = "sleep" =>
                     /\ attempts[i] = n
                     /\ retriesLeft[i] = MAX_RETRIES - (n - 1)
                     /\ delays[i] = DelaysAfter(n)
                /\ pc[i] = "settled" =>
                     /\ attempts[i] = n
                     /\ retriesLeft[i] = MAX_RETRIES - (n - 1)
                     /\ delays[i] = DelaysAfter(n - 1))

\* one invocation is retrying while another one has completed its update
C18_Witness ==
    \E i \in Inv : \E j \in Inv \ {i} :
      /\ pc[i] = "sleep" /\ Len(outcomes[i]) = 1 /\ retriesLeft[i] = MAX_RETRIES
      /\ pc[j] = "done" /\ ~result[j].isError /\ applied[j] = 1

\* C19: one invocation of a write operation makes at most one write take effect
\* upstream, also when an attempt the upstream had processed ends in a timeout,
\* a network fault or a 5xx and the request is sent again.
C19_AtMostOneWriteTakesEffect ==
    \A i \in Inv : applied[i] <= 1

====
